---- MODULE Spec2Model ----
(***************************************************************************)
(* Hash-chain audit ledger of QuickServe Legal (src/src/audit.py,          *)
(* src/src/models/audit.py): the audit_logs table, log_event as the steps  *)
(* between its await points, verify_audit_chain_integrity over a snapshot  *)
(* of the table, and out-of-band writes to the table.                      *)
(***************************************************************************)
EXTENDS Integers, Sequences, FiniteSets, TLC

VARIABLES audit_logs, pc, frame, returned, overlap, oob_writes, pristine

\* document download marking (src/src/documents.py, document_routes.py)
VARIABLES documents, downloads, emails

\* the rate limiter (src/src/rate_limit.py): rate_limit_store._requests, the
\* monotonic clock, the last response, the requests made so far and, for
\* each key, the timestamps of the requests that were let through
VARIABLES requests_, monotonic, response, posts, admitted

\* one call of verify_sendgrid_webhook_signature (src/src/email_tracking.py):
\* settings.SENDGRID_WEBHOOK_SECRET, the arguments and the value returned
VARIABLES webhook

\* certificate management (src/src/certificate_manager.py): the stored
\* certificate, each session's call and loaded Certificate object, the
\* certificate events logged, now_utc() and the number of calls begun
VARIABLES certificate, sessions, cert_events, utc, calls

ledger_vars == <<audit_logs, pc, frame, returned, overlap, oob_writes, pristine>>
download_vars == <<documents, downloads, emails>>

\* everything the ledger's operations leave alone
rate_vars == <<requests_, monotonic, response, posts, admitted>>
webhook_vars == <<webhook>>
cert_vars == <<certificate, sessions, cert_events, utc, calls>>
app_vars == <<download_vars, rate_vars, webhook_vars, cert_vars>>

vars == <<ledger_vars, app_vars>>

(***************************************************************************)
(* Bounds                                                                  *)
(***************************************************************************)
MaxCallers == 2
MaxEntries == 3
MaxTime == 1
MaxOob == 1
MaxClock == 2
MaxLimit == 2
MaxRequests == 3
MaxPosts == 12
MaxBystander == 1
MaxTicks == 2
MaxCalls == 3

Callers == 1..MaxCallers
Times == 1..MaxTime

(***************************************************************************)
(* Values.  Python None is the empty tuple and a present Optional value a  *)
(* 1-tuple; the strings held by previous_hash and entry_hash are tuples,   *)
(* "" being the empty one.                                                 *)
(***************************************************************************)
None == <<>>
Some(v) == <<v>>
EmptyStr == <<>>

\* json.dumps of one scalar: null, a number, or a quoted string
JsonNull == <<"null">>
JsonNum(n) == <<"num", n>>
JsonStr(s) == <<"str", s>>
JsonOptNum(o) == IF o = None THEN JsonNull ELSE JsonNum(o[1])
JsonOptStr(o) == IF o = None THEN JsonNull ELSE JsonStr(o[1])

\* datetime.isoformat() of a naive datetime
isoformat(t) == <<"iso", t>>

\* hashlib.sha256(...).hexdigest(), collision-free on the inputs of the model
sha256(canonical_string) == <<"sha256", canonical_string>>

\* "previous_hash or ''": None and "" both give ""
OrEmpty(previous_hash) ==
  IF previous_hash = None \/ previous_hash = Some(EmptyStr)
  THEN EmptyStr
  ELSE previous_hash[1]

\* compute_hash hashing previous_hash as it is, null when None
compute_hash_raw_previous(event_type, description, user_id, document_id, metadata_json, ip_address, previous_hash, created_at) ==
  sha256([created_at |-> isoformat(created_at),
          description |-> JsonStr(description),
          document_id |-> JsonOptNum(document_id),
          event_type |-> JsonStr(event_type),
          ip_address |-> JsonOptStr(ip_address),
          metadata_json |-> JsonOptStr(metadata_json),
          previous_hash |-> JsonOptStr(previous_hash),
          user_id |-> JsonOptNum(user_id)])

\* AuditLog.compute_hash
compute_hash(event_type, description, user_id, document_id, metadata_json, ip_address, previous_hash, created_at) ==
  sha256([created_at |-> isoformat(created_at),
          description |-> JsonStr(description),
          document_id |-> JsonOptNum(document_id),
          event_type |-> JsonStr(event_type),
          ip_address |-> JsonOptStr(ip_address),
          metadata_json |-> JsonOptStr(metadata_json),
          previous_hash |-> JsonStr(OrEmpty(previous_hash)),
          user_id |-> JsonOptNum(user_id)])

\* verify_hash passing the entry's user_agent where ip_address belongs
verify_hash_user_agent(entry) ==
  compute_hash(entry.event_type, entry.description, entry.user_id,
               entry.document_id, entry.metadata_json, entry.user_agent,
               entry.previous_hash, entry.created_at) = entry.entry_hash

\* AuditLog.verify_hash
verify_hash(entry) ==
  compute_hash(entry.event_type, entry.description, entry.user_id,
               entry.document_id, entry.metadata_json, entry.ip_address,
               entry.previous_hash, entry.created_at) = entry.entry_hash

(***************************************************************************)
(* Arguments of log_event                                                  *)
(***************************************************************************)
USER_AGENT_MAX == 500

\* a string as the sequence of its runs <<character, length>>, adjacent runs
\* of different characters; Str(ch, n) is ch repeated n times and \o
\* concatenates strings that do not meet in the same character
Str(ch, n) == IF n = 0 THEN <<>> ELSE <<<<ch, n>>>>

\* len(s)
RECURSIVE Len_(_)
Len_(s) == IF s = <<>> THEN 0 ELSE Head(s)[2] + Len_(Tail(s))

\* s[-n:] in place of s[:n]: the last n characters
RECURSIVE Prefix_last(_, _)
Prefix_last(s, n) ==
  IF n <= 0 \/ s = <<>> THEN <<>>
  ELSE LET last == s[Len(s)]
       IN IF last[2] >= n THEN <<<<last[1], n>>>>
          ELSE Prefix_last(SubSeq(s, 1, Len(s) - 1), n - last[2]) \o <<last>>

\* s[:n], the first n characters
RECURSIVE Prefix(_, _)
Prefix(s, n) ==
  IF n <= 0 \/ s = <<>> THEN <<>>
  ELSE IF Head(s)[2] >= n THEN <<<<Head(s)[1], n>>>>
       ELSE <<Head(s)>> \o Prefix(Tail(s), n - Head(s)[2])

\* rank of a metadata key in sorted (alphabetical) order
MetaKeys == <<"certificate_id", "signature_id">>
KeyRank(k) == CHOOSE i \in 1..Len(MetaKeys) : MetaKeys[i] = k

\* json.dumps(metadata, sort_keys=True): the items in key order
RECURSIVE InsertItem(_, _)
InsertItem(item, sorted) ==
  IF sorted = <<>> THEN <<item>>
  ELSE IF KeyRank(item[1]) <= KeyRank(Head(sorted)[1])
       THEN <<item>> \o sorted
       ELSE <<Head(sorted)>> \o InsertItem(item, Tail(sorted))

\* json.dumps(metadata) without sort_keys: the items in insertion order
json_dumps_unsorted(metadata) == metadata

RECURSIVE json_dumps_sorted(_)
json_dumps_sorted(metadata) ==
  IF metadata = <<>> THEN <<>>
  ELSE InsertItem(Head(metadata), json_dumps_sorted(Tail(metadata)))

Args(event_type, description, user_id, document_id, metadata, ip_address, user_agent) ==
  [event_type |-> event_type, description |-> description,
   user_id |-> user_id, document_id |-> document_id, metadata |-> metadata,
   ip_address |-> ip_address, user_agent |-> user_agent]

\* a call with the required arguments only, a call with all of them
UploadArgs == Args("document.uploaded", "x", None, None, None, None, None)
ServeArgs == Args("document.served", "y", Some(1), Some(1), Some(<<<<"signature_id", 7>>, <<"certificate_id", 3>>>>), Some("10.0.0.1"), Some(Str("a", USER_AGENT_MAX) \o Str("b", 100)))

CallArgs == {UploadArgs, ServeArgs}

\* a call with an empty event_type, and a user_agent of exactly the maximum
BlankArgs == Args("", "z", Some(2), None, None, None, Some(Str("b", USER_AGENT_MAX)))

\* the serve call with its metadata keys in the other order, with an empty
\* metadata dictionary, and with no metadata
ReorderedArgs == [ServeArgs EXCEPT !.metadata = Some(<<<<"certificate_id", 3>>, <<"signature_id", 7>>>>)]
EmptyMetaArgs == [ServeArgs EXCEPT !.metadata = Some(<<>>)]
NoMetaArgs == [ServeArgs EXCEPT !.metadata = None]
MetaArgs == {ServeArgs, ReorderedArgs, EmptyMetaArgs, NoMetaArgs}

NoArgs == Args("", "", None, None, None, None, None)

(***************************************************************************)
(* Rows of audit_logs                                                      *)
(***************************************************************************)
Row(id, a, metadata_json, user_agent, previous_hash, entry_hash, created_at) ==
  [id |-> id, event_type |-> a.event_type, description |-> a.description,
   metadata_json |-> metadata_json, user_id |-> a.user_id,
   document_id |-> a.document_id, ip_address |-> a.ip_address,
   user_agent |-> user_agent, previous_hash |-> previous_hash,
   entry_hash |-> entry_hash, created_at |-> created_at]

NoRow == Row(0, NoArgs, None, None, None, EmptyStr, 0)

Ids(tbl) == { e.id : e \in tbl }
MaxId(tbl) == CHOOSE i \in Ids(tbl) : \A j \in Ids(tbl) : j <= i

\* ids handed out downwards: one less than the smallest id in the table
NewId_below(tbl) ==
  IF tbl = {} THEN 0
  ELSE (CHOOSE i \in Ids(tbl) : \A j \in Ids(tbl) : i <= j) - 1

\* INTEGER PRIMARY KEY of SQLite: one more than the largest id in the table
NewId(tbl) == IF tbl = {} THEN 1 ELSE MaxId(tbl) + 1

\* get_last_audit_entry ordering by created_at descending: the latest entry
get_last_audit_entry_latest(tbl) ==
  IF tbl = {} THEN None
  ELSE Some(CHOOSE e \in tbl : \A f \in tbl : f.created_at <= e.created_at)

\* get_last_audit_entry ordering by id ascending: the oldest entry
get_last_audit_entry_asc(tbl) ==
  IF tbl = {} THEN None
  ELSE Some(CHOOSE e \in tbl : \A f \in tbl : e.id <= f.id)

\* select(AuditLog).order_by(desc(AuditLog.id)).limit(1)
get_last_audit_entry(tbl) ==
  IF tbl = {} THEN None
  ELSE Some(CHOOSE e \in tbl : e.id = MaxId(tbl))

\* the dictionary verify_audit_chain_integrity returns
Result(valid, entries_checked, first_invalid_id, error) ==
  [valid |-> valid, entries_checked |-> entries_checked,
   first_invalid_id |-> first_invalid_id, error |-> error]

NoResult == Result(TRUE, 0, None, None)

NoExport == [export_timestamp |-> isoformat(0), entry_count |-> 0,
             entries |-> <<>>]

\* the value returned by the step just taken, NoReturn when it returns none
NoReturn == [op |-> "none", entry |-> NoRow, start_id |-> None,
             end_id |-> None, result |-> NoResult, key |-> 0, limit |-> 0,
             rows |-> <<>>, export |-> NoExport]

(***************************************************************************)
(* log_event, one action per stretch between awaits                        *)
(***************************************************************************)
NoFrame == [args |-> NoArgs, previous_entry |-> None, previous_hash |-> None,
            audit_entry |-> NoRow]

\* lines 44-45: read the tail and take its entry_hash
LogEventReadTail(c, a) ==
  /\ pc[c] = "idle"
  /\ Cardinality(audit_logs) + Cardinality({d \in Callers : pc[d] # "idle"})
       < MaxEntries
  /\ LET previous_entry == get_last_audit_entry(audit_logs)
         previous_hash == IF previous_entry # None
                          THEN Some(previous_entry[1].entry_hash)
                          ELSE None
     IN frame' = [frame EXCEPT ![c] = [args |-> a,
                                       previous_entry |-> previous_entry,
                                       previous_hash |-> previous_hash,
                                       audit_entry |-> NoRow]]
  /\ pc' = [pc EXCEPT ![c] = "read"]
  /\ overlap' = (overlap \/ \E d \in Callers : pc[d] # "idle")
  /\ returned' = NoReturn
  /\ UNCHANGED <<audit_logs, oob_writes, pristine, app_vars>>

\* LogEventBuild storing created_at rounded down to a coarser unit than the
\* one that was hashed
LogEventBuild_rounded(c, now_utc) ==
  /\ pc[c] = "read"
  /\ LET a == frame[c].args
         previous_hash == frame[c].previous_hash
         metadata_json ==
           IF a.metadata # None /\ a.metadata[1] # <<>>
           THEN Some(json_dumps_sorted(a.metadata[1]))
           ELSE None
         user_agent ==
           IF a.user_agent # None /\ Len_(a.user_agent[1]) > USER_AGENT_MAX
           THEN Some(Prefix(a.user_agent[1], USER_AGENT_MAX))
           ELSE a.user_agent
         created_at == now_utc
         entry_hash == compute_hash(a.event_type, a.description, a.user_id,
                                    a.document_id, metadata_json,
                                    a.ip_address, previous_hash, created_at)
     IN frame' = [frame EXCEPT ![c].audit_entry =
                    Row(0, a, metadata_json, user_agent, previous_hash,
                        entry_hash, (created_at \div 2) * 2)]
  /\ pc' = [pc EXCEPT ![c] = "built"]
  /\ returned' = NoReturn
  /\ UNCHANGED <<audit_logs, overlap, oob_writes, pristine, app_vars>>

\* LogEventBuild serializing every metadata that is not None, the empty
\* dictionary too
LogEventBuild_dumps_empty(c, now_utc) ==
  /\ pc[c] = "read"
  /\ LET a == frame[c].args
         previous_hash == frame[c].previous_hash
         metadata_json ==
           IF a.metadata # None
           THEN Some(json_dumps_sorted(a.metadata[1]))
           ELSE None
         user_agent ==
           IF a.user_agent # None /\ Len_(a.user_agent[1]) > USER_AGENT_MAX
           THEN Some(Prefix(a.user_agent[1], USER_AGENT_MAX))
           ELSE a.user_agent
         created_at == now_utc
         entry_hash == compute_hash(a.event_type, a.description, a.user_id,
                                    a.document_id, metadata_json,
                                    a.ip_address, previous_hash, created_at)
     IN frame' = [frame EXCEPT ![c].audit_entry =
                    Row(0, a, metadata_json, user_agent, previous_hash,
                        entry_hash, created_at)]
  /\ pc' = [pc EXCEPT ![c] = "built"]
  /\ returned' = NoReturn
  /\ UNCHANGED <<audit_logs, overlap, oob_writes, pristine, app_vars>>

\* lines 47-83: serialize metadata, truncate user_agent, take the timestamp,
\* compute the hash and build the entry
LogEventBuild(c, now_utc) ==
  /\ pc[c] = "read"
  /\ LET a == frame[c].args
         previous_hash == frame[c].previous_hash
         metadata_json ==
           IF a.metadata # None /\ a.metadata[1] # <<>>
           THEN Some(json_dumps_sorted(a.metadata[1]))
           ELSE None
         user_agent ==
           IF a.user_agent # None /\ Len_(a.user_agent[1]) > USER_AGENT_MAX
           THEN Some(Prefix(a.user_agent[1], USER_AGENT_MAX))
           ELSE a.user_agent
         created_at == now_utc
         entry_hash == compute_hash(a.event_type, a.description, a.user_id,
                                    a.document_id, metadata_json,
                                    a.ip_address, previous_hash, created_at)
     IN frame' = [frame EXCEPT ![c].audit_entry =
                    Row(0, a, metadata_json, user_agent, previous_hash,
                        entry_hash, created_at)]
  /\ pc' = [pc EXCEPT ![c] = "built"]
  /\ returned' = NoReturn
  /\ UNCHANGED <<audit_logs, overlap, oob_writes, pristine, app_vars>>

\* LogEventCommit storing the row with its entry_hash still to be written
LogEventCommit_unhashed(c) ==
  /\ pc[c] = "built"
  /\ LET audit_entry == [frame[c].audit_entry EXCEPT !.id = NewId(audit_logs)]
     IN /\ audit_logs' = audit_logs \cup
             {[audit_entry EXCEPT !.entry_hash = EmptyStr]}
        /\ returned' = [NoReturn EXCEPT !.op = "log_event",
                                        !.entry = audit_entry]
        /\ pristine' = IF oob_writes = 0 THEN audit_logs' ELSE pristine
  /\ pc' = [pc EXCEPT ![c] = "idle"]
  /\ frame' = [frame EXCEPT ![c] = NoFrame]
  /\ UNCHANGED <<overlap, oob_writes, app_vars>>

\* LogEventCommit writing its row under the largest id already in use, in
\* place of the row that has it
LogEventCommit_merge(c) ==
  /\ pc[c] = "built"
  /\ LET id == IF audit_logs = {} THEN 1 ELSE MaxId(audit_logs)
         audit_entry == [frame[c].audit_entry EXCEPT !.id = id]
     IN /\ audit_logs' = { e \in audit_logs : e.id # id } \cup {audit_entry}
        /\ returned' = [NoReturn EXCEPT !.op = "log_event",
                                        !.entry = audit_entry]
        /\ pristine' = IF oob_writes = 0 THEN audit_logs' ELSE pristine
  /\ pc' = [pc EXCEPT ![c] = "idle"]
  /\ frame' = [frame EXCEPT ![c] = NoFrame]
  /\ UNCHANGED <<overlap, oob_writes, app_vars>>

\* lines 84-87: INSERT and commit, the table assigns the id; return the entry
LogEventCommit(c) ==
  /\ pc[c] = "built"
  /\ LET audit_entry == [frame[c].audit_entry EXCEPT !.id = NewId(audit_logs)]
     IN /\ audit_logs' = audit_logs \cup {audit_entry}
        /\ returned' = [NoReturn EXCEPT !.op = "log_event",
                                         !.entry = audit_entry]
        /\ pristine' = IF oob_writes = 0 THEN audit_logs' ELSE pristine
  /\ pc' = [pc EXCEPT ![c] = "idle"]
  /\ frame' = [frame EXCEPT ![c] = NoFrame]
  /\ UNCHANGED <<overlap, oob_writes, app_vars>>

(***************************************************************************)
(* verify_audit_chain_integrity                                            *)
(***************************************************************************)
\* order_by(AuditLog.id.asc())
RECURSIVE OrderByIdAsc(_)
OrderByIdAsc(rows) ==
  IF rows = {} THEN <<>>
  ELSE LET first == CHOOSE e \in rows : \A f \in rows : e.id <= f.id
       IN <<first>> \o OrderByIdAsc(rows \ {first})

\* SelectRange without the end_id filter
SelectRange_no_end(tbl, start_id, end_id) ==
  OrderByIdAsc({ e \in tbl : start_id # None => e.id >= start_id[1] })

\* lines 171-179: the rows the query selects
SelectRange(tbl, start_id, end_id) ==
  OrderByIdAsc({ e \in tbl :
                   /\ (start_id # None => e.id >= start_id[1])
                   /\ (end_id # None => e.id <= end_id[1]) })

HashMismatch(id) ==
  Some(<<"Entry", id, "hash mismatch - data may have been tampered">>)
ChainBroken(id) ==
  Some(<<"Entry", id, "chain broken - previous_hash mismatch">>)

\* VerifyLoop reporting a failure without saying which check failed
RECURSIVE VerifyLoop_no_error(_, _, _, _)
VerifyLoop_no_error(entries, i, entries_checked, previous_hash) ==
  IF i > Len(entries)
  THEN Result(TRUE, entries_checked, None, None)
  ELSE LET entry == entries[i]
           checked == entries_checked + 1
       IN IF ~verify_hash(entry)
          THEN Result(FALSE, checked, Some(entry.id), None)
          ELSE IF previous_hash # None /\ entry.previous_hash # previous_hash
          THEN Result(FALSE, checked, Some(entry.id), None)
          ELSE VerifyLoop_no_error(entries, i + 1, checked,
                                   Some(entry.entry_hash))

\* VerifyLoop without the linkage check
RECURSIVE VerifyLoop_no_link(_, _, _, _)
VerifyLoop_no_link(entries, i, entries_checked, previous_hash) ==
  IF i > Len(entries)
  THEN Result(TRUE, entries_checked, None, None)
  ELSE LET entry == entries[i]
           checked == entries_checked + 1
       IN IF ~verify_hash(entry)
          THEN Result(FALSE, checked, Some(entry.id), HashMismatch(entry.id))
          ELSE VerifyLoop_no_link(entries, i + 1, checked,
                                  Some(entry.entry_hash))

\* VerifyLoop comparing the first entry's previous_hash with None as well
RECURSIVE VerifyLoop_checks_first(_, _, _, _)
VerifyLoop_checks_first(entries, i, entries_checked, previous_hash) ==
  IF i > Len(entries)
  THEN Result(TRUE, entries_checked, None, None)
  ELSE LET entry == entries[i]
           checked == entries_checked + 1
       IN IF ~verify_hash(entry)
          THEN Result(FALSE, checked, Some(entry.id), HashMismatch(entry.id))
          ELSE IF entry.previous_hash # previous_hash
          THEN Result(FALSE, checked, Some(entry.id), ChainBroken(entry.id))
          ELSE VerifyLoop_checks_first(entries, i + 1, checked,
                                       Some(entry.entry_hash))

\* VerifyLoop naming, on a broken link, the entry before the one that breaks it
RECURSIVE VerifyLoop_blames_previous(_, _, _, _)
VerifyLoop_blames_previous(entries, i, entries_checked, previous_hash) ==
  IF i > Len(entries)
  THEN Result(TRUE, entries_checked, None, None)
  ELSE LET entry == entries[i]
           checked == entries_checked + 1
       IN IF ~verify_hash(entry)
          THEN Result(FALSE, checked, Some(entry.id), HashMismatch(entry.id))
          ELSE IF previous_hash # None /\ entry.previous_hash # previous_hash
          THEN Result(FALSE, checked, Some(entries[i - 1].id),
                      ChainBroken(entries[i - 1].id))
          ELSE VerifyLoop_blames_previous(entries, i + 1, checked,
                                          Some(entry.entry_hash))

\* VerifyLoop reporting the number of entries loaded, not the number walked
RECURSIVE VerifyLoop_count_all(_, _, _, _)
VerifyLoop_count_all(entries, i, entries_checked, previous_hash) ==
  IF i > Len(entries)
  THEN Result(TRUE, entries_checked, None, None)
  ELSE LET entry == entries[i]
           checked == entries_checked + 1
       IN IF ~verify_hash(entry)
          THEN Result(FALSE, Len(entries), Some(entry.id),
                      HashMismatch(entry.id))
          ELSE IF previous_hash # None /\ entry.previous_hash # previous_hash
          THEN Result(FALSE, Len(entries), Some(entry.id),
                      ChainBroken(entry.id))
          ELSE VerifyLoop_count_all(entries, i + 1, checked,
                                    Some(entry.entry_hash))

\* lines 189-220: the loop, entry i of entries being the next one
RECURSIVE VerifyLoop(_, _, _, _)
VerifyLoop(entries, i, entries_checked, previous_hash) ==
  IF i > Len(entries)
  THEN Result(TRUE, entries_checked, None, None)
  ELSE LET entry == entries[i]
           checked == entries_checked + 1
       IN IF ~verify_hash(entry)
          THEN Result(FALSE, checked, Some(entry.id), HashMismatch(entry.id))
          ELSE IF previous_hash # None /\ entry.previous_hash # previous_hash
          THEN Result(FALSE, checked, Some(entry.id), ChainBroken(entry.id))
          ELSE VerifyLoop(entries, i + 1, checked, Some(entry.entry_hash))

\* verify_audit_chain_integrity starting the walk with previous_hash = ""
verify_audit_chain_integrity_empty_previous(tbl, start_id, end_id) ==
  LET entries == SelectRange(tbl, start_id, end_id)
  IN IF entries = <<>>
     THEN Result(TRUE, 0, None, None)
     ELSE VerifyLoop(entries, 1, 0, Some(EmptyStr))

\* verify_audit_chain_integrity reporting an empty selection as a failure
verify_audit_chain_integrity_empty_invalid(tbl, start_id, end_id) ==
  LET entries == SelectRange(tbl, start_id, end_id)
  IN IF entries = <<>>
     THEN Result(FALSE, 0, None, Some(<<"No entries">>))
     ELSE VerifyLoop(entries, 1, 0, None)

\* lines 170-220
verify_audit_chain_integrity(tbl, start_id, end_id) ==
  LET entries == SelectRange(tbl, start_id, end_id)
  IN IF entries = <<>>
     THEN Result(TRUE, 0, None, None)
     ELSE VerifyLoop(entries, 1, 0, None)

\* the optional bounds a caller may pass
IdBounds == {None, Some(2)}

\* bounds with start_id > end_id
ReversedRange == <<Some(2), Some(1)>>

VerifyChain(start_id, end_id) ==
  /\ returned' = [NoReturn EXCEPT
                    !.op = "verify", !.start_id = start_id,
                    !.end_id = end_id,
                    !.result = verify_audit_chain_integrity(audit_logs,
                                                            start_id, end_id)]
  /\ UNCHANGED <<audit_logs, pc, frame, overlap, oob_writes, pristine, app_vars>>

(***************************************************************************)
(* Queries and export                                                      *)
(***************************************************************************)
DEFAULT_LIMIT == 100

\* .order_by(created_at.asc()) or .desc(): every list of the rows in that
\* order, rows of equal created_at coming in whatever order the database
\* produces them
RECURSIVE OrderByCreatedAt(_, _)
OrderByCreatedAt(rows, descending) ==
  IF rows = {} THEN {<<>>}
  ELSE LET first == { e \in rows :
                        \A f \in rows :
                          IF descending THEN e.created_at >= f.created_at
                          ELSE e.created_at <= f.created_at }
       IN UNION { { <<e>> \o q : q \in OrderByCreatedAt(rows \ {e}, descending) } :
                  e \in first }

\* .limit(limit)
Limit(q, limit) == SubSeq(q, 1, IF Len(q) < limit THEN Len(q) ELSE limit)

\* get_last_audit_entry as a call of its own
GetLastAuditEntry ==
  /\ returned' =
       [NoReturn EXCEPT
          !.op = "get_last_audit_entry",
          !.entry = IF get_last_audit_entry(audit_logs) = None THEN NoRow
                    ELSE get_last_audit_entry(audit_logs)[1]]
  /\ UNCHANGED <<audit_logs, pc, frame, overlap, oob_writes, pristine, app_vars>>

\* get_document_audit_trail ordering by created_at descending
get_document_audit_trail_desc(tbl, document_id, limit) ==
  LET rows == { e \in tbl : e.document_id = Some(document_id) }
  IN { Limit(q, limit) : q \in OrderByCreatedAt(rows, TRUE) }

\* lines 114-120: the lists the query may return
get_document_audit_trail(tbl, document_id, limit) ==
  LET rows == { e \in tbl : e.document_id = Some(document_id) }
  IN { Limit(q, limit) : q \in OrderByCreatedAt(rows, FALSE) }

\* lines 139-145
get_user_audit_trail(tbl, user_id, limit) ==
  LET rows == { e \in tbl : e.user_id = Some(user_id) }
  IN { Limit(q, limit) : q \in OrderByCreatedAt(rows, TRUE) }

GetDocumentAuditTrail(document_id, limit) ==
  /\ \E rows \in get_document_audit_trail(audit_logs, document_id, limit) :
       returned' = [NoReturn EXCEPT !.op = "get_document_audit_trail",
                                    !.key = document_id, !.limit = limit,
                                    !.rows = rows]
  /\ UNCHANGED <<audit_logs, pc, frame, overlap, oob_writes, pristine, app_vars>>

GetUserAuditTrail(user_id, limit) ==
  /\ \E rows \in get_user_audit_trail(audit_logs, user_id, limit) :
       returned' = [NoReturn EXCEPT !.op = "get_user_audit_trail",
                                    !.key = user_id, !.limit = limit,
                                    !.rows = rows]
  /\ UNCHANGED <<audit_logs, pc, frame, overlap, oob_writes, pristine, app_vars>>

\* AuditLog.event_metadata: the dictionary parsed from metadata_json, None
\* when there is none
event_metadata(entry) ==
  IF entry.metadata_json = None THEN None
  ELSE LET items == entry.metadata_json[1]
       IN Some({ items[i] : i \in DOMAIN items })

\* lines 233-253: the exported document, before json.dumps renders it
export_audit_trail_to_json(entries, now_utc) ==
  [export_timestamp |-> isoformat(now_utc),
   entry_count |-> Len(entries),
   entries |-> [i \in DOMAIN entries |->
                  [id |-> entries[i].id,
                   event_type |-> entries[i].event_type,
                   description |-> entries[i].description,
                   user_id |-> entries[i].user_id,
                   document_id |-> entries[i].document_id,
                   metadata |-> event_metadata(entries[i]),
                   ip_address |-> entries[i].ip_address,
                   previous_hash |-> entries[i].previous_hash,
                   entry_hash |-> entries[i].entry_hash,
                   created_at |-> isoformat(entries[i].created_at)]]]

\* the export route: the document's trail with the default limit, exported
ExportAuditTrail(document_id, now_utc) ==
  /\ \E audit_entries \in
         get_document_audit_trail(audit_logs, document_id, DEFAULT_LIMIT) :
       returned' =
         [NoReturn EXCEPT
            !.op = "export_audit_trail", !.key = document_id,
            !.export = export_audit_trail_to_json(audit_entries, now_utc)]
  /\ UNCHANGED <<audit_logs, pc, frame, overlap, oob_writes, pristine, app_vars>>

(***************************************************************************)
(* Document download: the POST /download/{token} route and                 *)
(* try_mark_document_downloaded                                            *)
(***************************************************************************)
DocumentIds == {1, 2}
Requests == 1..MaxRequests

\* the download columns of a documents row
Download(downloaded_at, download_ip, download_user_agent) ==
  [downloaded_at |-> downloaded_at, download_ip |-> download_ip,
   download_user_agent |-> download_user_agent]

NoDownload == Download(None, None, None)

\* a request: where it is in download_file, the document its token names,
\* what the client sent, and the value try_mark_document_downloaded returned
NoRequest == [at |-> "idle", doc |-> 0, rows_affected |-> 0]

\* request.client.host and the user-agent header of request r
ClientIp(r) == r
UserAgent(r) == Str("u", USER_AGENT_MAX - 2 + r)

\* lines 313-324: the token names a document that is there, is not expired
\* and has its file
DownloadFileGetDocument(r, d) ==
  /\ downloads[r].at = "idle"
  /\ downloads' = [downloads EXCEPT ![r] = [at |-> "found", doc |-> d,
                                             rows_affected |-> 0]]
  /\ UNCHANGED <<documents, emails, ledger_vars, rate_vars, webhook_vars, cert_vars>>

\* the marking without its WHERE downloaded_at IS NULL
try_mark_document_downloaded_unconditional(r, now) ==
  /\ downloads[r].at = "found"
  /\ documents' = [documents EXCEPT ![downloads[r].doc] =
                    Download(Some(now), Some(ClientIp(r)),
                             Some(Prefix(UserAgent(r), 500)))]
  /\ downloads' = [downloads EXCEPT ![r].at = "marked", ![r].rows_affected = 1]
  /\ UNCHANGED <<emails, ledger_vars, rate_vars, webhook_vars, cert_vars>>

\* lines 216-235: UPDATE documents SET ... WHERE id = :id AND downloaded_at
\* IS NULL, and commit; the statement is atomic, its rowcount is returned
try_mark_document_downloaded(r, now) ==
  /\ downloads[r].at = "found"
  /\ LET d == downloads[r].doc
         truncated_ua == IF UserAgent(r) # <<>>
                         THEN Some(Prefix(UserAgent(r), 500))
                         ELSE None
         rows_affected == IF documents[d].downloaded_at = None THEN 1 ELSE 0
     IN /\ documents' =
             IF rows_affected = 1
             THEN [documents EXCEPT ![d] = Download(Some(now), Some(ClientIp(r)),
                                                    truncated_ua)]
             ELSE documents
        /\ downloads' = [downloads EXCEPT ![r].at = "marked",
                                          ![r].rows_affected = rows_affected]
  /\ UNCHANGED <<emails, ledger_vars, rate_vars, webhook_vars, cert_vars>>

\* lines 331-340: notify the sender on the first download, return the file
DownloadFileReturn(r) ==
  /\ downloads[r].at = "marked"
  /\ emails' = IF downloads[r].rows_affected > 0
               THEN [emails EXCEPT ![downloads[r].doc] = @ + 1]
               ELSE emails
  /\ downloads' = [downloads EXCEPT ![r].at = "done"]
  /\ UNCHANGED <<documents, ledger_vars, rate_vars, webhook_vars, cert_vars>>

(***************************************************************************)
(* Rate limiting: RateLimitStore and RateLimitMiddleware                   *)
(***************************************************************************)
\* a path is the sequence of its segments: /pnsa/login is <<"pnsa", "login">>
RATE_LIMIT_RULES == <<
  [path |-> <<"login">>, max_requests |-> 10, window_seconds |-> 60],
  [path |-> <<"register">>, max_requests |-> 10, window_seconds |-> 60],
  [path |-> <<"pnsa", "login">>, max_requests |-> 10, window_seconds |-> 60],
  [path |-> <<"download">>, max_requests |-> 30, window_seconds |-> 60] >>

ClientIps == {1, 2}
Paths == {<<"login">>, <<"documents">>}
Methods == {"POST", "GET"}

\* f"{client_ip}:{path}"
Key(client_ip, path) == <<client_ip, path>>
Keys == {Key(ip, path) : ip \in ClientIps, path \in Paths}

\* how many requests each client sends: the first enough to fill a window,
\* the second a few beside it
Budget == [ip \in ClientIps |-> IF ip = 1 THEN MaxPosts ELSE MaxBystander]

\* the clock moves in steps of half a window
TickSeconds == 30

NoResponse == [status_code |-> 0, retry_after |-> None]

\* path == rule_path or path.startswith(rule_path + "/")
RuleMatches(rule_path, path) ==
  /\ Len(path) >= Len(rule_path)
  /\ SubSeq(path, 1, Len(rule_path)) = rule_path

\* lines 76-84: the first rule, in the order of the dict, that matches
MatchingRule(path) ==
  LET hits == {i \in 1..Len(RATE_LIMIT_RULES) : RuleMatches(RATE_LIMIT_RULES[i].path, path)}
  IN IF hits = {} THEN None
     ELSE Some(RATE_LIMIT_RULES[CHOOSE i \in hits : \A j \in hits : i <= j])

\* [t for t in self._requests[key] if t > cutoff]
Recent(timestamps, cutoff) == SelectSeq(timestamps, LAMBDA t : t > cutoff)

\* is_rate_limited letting through one request more than max_requests
is_rate_limited_one_more(timestamps, now, max_requests, window_seconds) ==
  LET kept == Recent(timestamps, now - window_seconds)
  IN IF Len(kept) > max_requests
     THEN [limited |-> TRUE, requests |-> kept]
     ELSE [limited |-> FALSE, requests |-> Append(kept, now)]

\* lines 22-35: what is_rate_limited returns and what it leaves in
\* self._requests[key]
is_rate_limited(timestamps, now, max_requests, window_seconds) ==
  LET kept == Recent(timestamps, now - window_seconds)
  IN IF Len(kept) >= max_requests
     THEN [limited |-> TRUE, requests |-> kept]
     ELSE [limited |-> FALSE, requests |-> Append(kept, now)]

\* lines 64-104: one request through the middleware
RateLimitMiddleware(method, client_ip, path) ==
  /\ posts[client_ip] < Budget[client_ip]
  /\ posts' = [posts EXCEPT ![client_ip] = @ + 1]
  /\ LET rule == MatchingRule(path)
         key == Key(client_ip, path)
     IN IF method # "POST" \/ rule = None
        THEN /\ response' = [status_code |-> 200, retry_after |-> None]
             /\ UNCHANGED <<requests_, admitted>>
        ELSE LET r == is_rate_limited(requests_[key], monotonic,
                                      rule[1].max_requests, rule[1].window_seconds)
             IN /\ requests_' = [requests_ EXCEPT ![key] = r.requests]
                /\ IF r.limited
                   THEN /\ response' = [status_code |-> 429,
                                        retry_after |-> Some(rule[1].window_seconds)]
                        /\ UNCHANGED admitted
                   ELSE /\ response' = [status_code |-> 200, retry_after |-> None]
                        /\ admitted' = [admitted EXCEPT ![key] = Append(@, monotonic)]
  /\ UNCHANGED <<monotonic, ledger_vars, download_vars, webhook_vars, cert_vars>>

\* time.monotonic() moves on
Tick ==
  /\ monotonic < MaxTicks * TickSeconds
  /\ monotonic' = monotonic + TickSeconds
  /\ UNCHANGED <<requests_, response, posts, admitted, ledger_vars, download_vars, webhook_vars, cert_vars>>

(***************************************************************************)
(* SendGrid webhook signature verification                                 *)
(***************************************************************************)
\* a str is the sequence of its characters, a bytes value the sequence of
\* its bytes; "\xff" is a byte that is not UTF-8
Secrets == {None, Some(<<>>), Some(<<"k">>), Some(<<"q">>)}
Payloads == {<<"[", "]">>, <<"5", "[", "]">>, <<"[", "\\xff", "]">>}
Timestamps == {<<"1", "2", "3", "4", "5">>, <<"1", "2", "3", "4">>}

\* str.encode() and bytes.decode(): UTF-8, one byte per character here
encode(string) == [kind |-> "bytes", value |-> string]
CanDecode(bytes) == \A i \in DOMAIN bytes : bytes[i] # "\\xff"
decode(bytes) == [kind |-> "str", value |-> bytes]

\* hmac.new(key, msg, hashlib.sha256).hexdigest()
hmac_sha256_hexdigest(key, msg) == <<"hmac-sha256", key, msg>>

\* f"{timestamp}{payload.decode()}".encode()
signed_payload(payload, timestamp) == encode(timestamp \o decode(payload).value)

Signatures == {<<"fake-signature">>} \cup {hmac_sha256_hexdigest(encode(k[1]), signed_payload(p, t)) : k \in Secrets \ {None}, p \in {p \in Payloads : CanDecode(p)}, t \in Timestamps}

\* lines 63-82
verify_sendgrid_webhook_signature(secret, payload, signature, timestamp) ==
  IF secret = None \/ secret = Some(<<>>)
  THEN TRUE
  ELSE IF ~CanDecode(payload)
       THEN FALSE
       ELSE hmac_sha256_hexdigest(encode(secret[1]), signed_payload(payload, timestamp)) = signature

NoWebhook == [secret |-> None, payload |-> <<>>, signature |-> <<>>, timestamp |-> <<>>, result |-> None]

WebhookCalls == {[secret |-> k, payload |-> p, signature |-> g, timestamp |-> t, result |-> None] : k \in Secrets, p \in Payloads, g \in Signatures, t \in Timestamps}

\* the call returns
VerifySendgridWebhookSignature ==
  /\ webhook.result = None
  /\ webhook' = [webhook EXCEPT !.result = Some(verify_sendgrid_webhook_signature(
                    webhook.secret, webhook.payload, webhook.signature, webhook.timestamp))]
  /\ UNCHANGED <<ledger_vars, download_vars, rate_vars, cert_vars>>

(***************************************************************************)
(* Certificates: deactivate, reactivate and revoke                         *)
(***************************************************************************)
\* the columns of a certificates row that the three operations touch
Certificate(is_active, revoked_at, revocation_reason) ==
  [is_active |-> is_active, revoked_at |-> revoked_at,
   revocation_reason |-> revocation_reason]

\* the validity period of the certificate
valid_from == 0
valid_until == 1
UtcTimes == 0..(valid_until + 1)

\* models/certificate.py lines 59-77
is_valid(cert, now) ==
  cert.is_active /\ cert.revoked_at = None /\ valid_from <= now /\ now <= valid_until
is_expired(cert, now) == now > valid_until
is_revoked(cert) == cert.revoked_at # None

\* a session: the operation it runs, where the call is, the Certificate
\* object it loaded and the exception the call raised
NoSession == [op |-> "none", at |-> "idle", obj |-> Certificate(TRUE, None, None), raised |-> None]

Operations == {"deactivate", "reactivate", "revoke"}
Sessions == {1, 2}

\* db.commit(): the UPDATE carries the attributes whose value differs from
\* the loaded one
Flush(row, loaded, obj) ==
  [f \in DOMAIN row |-> IF obj[f] # loaded[f] THEN obj[f] ELSE row[f]]

\* get_certificate_by_id: the caller loads the certificate and begins a call
GetCertificateById(c, op) ==
  /\ sessions[c].at = "idle"
  /\ calls < MaxCalls
  /\ calls' = calls + 1
  /\ sessions' = [sessions EXCEPT ![c] = [op |-> op, at |-> "loaded",
                                          obj |-> certificate, raised |-> None]]
  /\ UNCHANGED <<certificate, cert_events, utc, ledger_vars, download_vars, rate_vars, webhook_vars>>

\* lines 169-172: set, commit, refresh
DeactivateCertificate(c) ==
  /\ sessions[c].at = "loaded" /\ sessions[c].op = "deactivate"
  /\ LET obj == [sessions[c].obj EXCEPT !.is_active = FALSE]
         row == Flush(certificate, sessions[c].obj, obj)
     IN /\ certificate' = row
        /\ sessions' = [sessions EXCEPT ![c].at = "committed", ![c].obj = row]
  /\ UNCHANGED <<cert_events, utc, calls, ledger_vars, download_vars, rate_vars, webhook_vars>>

\* reactivate_certificate without its two checks
ReactivateCertificate_unchecked(c) ==
  /\ sessions[c].at = "loaded" /\ sessions[c].op = "reactivate"
  /\ LET obj == [sessions[c].obj EXCEPT !.is_active = TRUE]
         row == Flush(certificate, sessions[c].obj, obj)
     IN /\ certificate' = row
        /\ sessions' = [sessions EXCEPT ![c].at = "committed", ![c].obj = row]
  /\ UNCHANGED <<cert_events, utc, calls, ledger_vars, download_vars, rate_vars, webhook_vars>>

\* lines 212-221: the two checks, then set, commit, refresh
ReactivateCertificate(c) ==
  /\ sessions[c].at = "loaded" /\ sessions[c].op = "reactivate"
  /\ IF is_revoked(sessions[c].obj) \/ is_expired(sessions[c].obj, utc)
     THEN /\ sessions' = [sessions EXCEPT ![c] = [NoSession EXCEPT
                             !.op = "reactivate", !.raised = Some("ValueError")]]
          /\ UNCHANGED certificate
     ELSE LET obj == [sessions[c].obj EXCEPT !.is_active = TRUE]
              row == Flush(certificate, sessions[c].obj, obj)
          IN /\ certificate' = row
             /\ sessions' = [sessions EXCEPT ![c].at = "committed", ![c].obj = row]
  /\ UNCHANGED <<cert_events, utc, calls, ledger_vars, download_vars, rate_vars, webhook_vars>>

\* lines 259-264: set, commit, refresh
RevokeCertificate(c, reason) ==
  /\ sessions[c].at = "loaded" /\ sessions[c].op = "revoke"
  /\ LET obj == Certificate(FALSE, Some(utc), Some(reason))
         row == Flush(certificate, sessions[c].obj, obj)
     IN /\ certificate' = row
        /\ sessions' = [sessions EXCEPT ![c].at = "committed", ![c].obj = row]
  /\ UNCHANGED <<cert_events, utc, calls, ledger_vars, download_vars, rate_vars, webhook_vars>>

\* the AuditEventType each operation logs
EventType(op) ==
  CASE op = "deactivate" -> "CERTIFICATE_DEACTIVATED"
    [] op = "reactivate" -> "CERTIFICATE_ACTIVATED"
    [] OTHER -> "CERTIFICATE_REVOKED"

\* the log_event call that ends each operation, and the return
CertificateLogEvent(c) ==
  /\ sessions[c].at = "committed"
  /\ cert_events' = Append(cert_events, EventType(sessions[c].op))
  /\ sessions' = [sessions EXCEPT ![c] = [NoSession EXCEPT !.op = sessions[c].op]]
  /\ UNCHANGED <<certificate, utc, calls, ledger_vars, download_vars, rate_vars, webhook_vars>>

\* now_utc() moves on
UtcTick ==
  /\ utc + 1 \in UtcTimes
  /\ utc' = utc + 1
  /\ UNCHANGED <<certificate, sessions, cert_events, calls, ledger_vars, download_vars, rate_vars, webhook_vars>>

(***************************************************************************)
(* Out-of-band writes to audit_logs (the table has no update or delete     *)
(* protection of its own)                                                  *)
(***************************************************************************)
HashedFields == {"event_type", "description", "user_id", "document_id",
                 "metadata_json", "ip_address", "previous_hash", "created_at"}
Columns == HashedFields \cup {"user_agent", "entry_hash"}

\* the first entry of the table
Oldest(tbl) == CHOOSE e \in tbl : \A f \in tbl : e.id <= f.id

\* the values an out-of-band UPDATE may write to a column of row e: for the
\* columns of log_event's arguments the values callers pass, for created_at
\* an earlier time, for previous_hash null, "" and the first entry's hash,
\* for entry_hash "" and the hash recomputed from the row as it is
ColumnValues(field, e, tbl) ==
  CASE field = "event_type" -> { a.event_type : a \in CallArgs }
    [] field = "description" -> { a.description : a \in CallArgs }
    [] field = "user_id" -> { a.user_id : a \in CallArgs }
    [] field = "document_id" -> { a.document_id : a \in CallArgs }
    [] field = "metadata_json" ->
         {None, Some(<<<<"certificate_id", 3>>, <<"signature_id", 7>>>>)}
    [] field = "ip_address" -> { a.ip_address : a \in CallArgs }
    [] field = "user_agent" -> {None, Some(Str("a", USER_AGENT_MAX))}
    [] field = "previous_hash" ->
         {None, Some(EmptyStr), Some(Oldest(tbl).entry_hash)}
    [] field = "entry_hash" ->
         {EmptyStr,
          compute_hash(e.event_type, e.description, e.user_id, e.document_id,
                       e.metadata_json, e.ip_address, e.previous_hash,
                       e.created_at)}
    [] field = "created_at" -> {0, 1}

\* UPDATE audit_logs SET field = value WHERE id = id, value being a new one
OobUpdate(id, field) ==
  /\ oob_writes < MaxOob
  /\ \E e \in audit_logs :
       /\ e.id = id
       /\ \E value \in ColumnValues(field, e, audit_logs) :
            /\ e[field] # value
            /\ audit_logs' =
                 (audit_logs \ {e}) \cup {[e EXCEPT ![field] = value]}
  /\ oob_writes' = oob_writes + 1
  /\ returned' = NoReturn
  /\ UNCHANGED <<pc, frame, overlap, pristine, app_vars>>

\* INSERT INTO audit_logs of a row with an unused id, hashed as compute_hash
\* would hash it, its previous_hash null or the entry_hash of the row before
OobInsert(id) ==
  /\ oob_writes < MaxOob
  /\ id \notin Ids(audit_logs)
  /\ \E previous_hash \in
         {None} \cup { Some(e.entry_hash) : e \in { f \in audit_logs : f.id < id } } :
       LET a == UploadArgs
           entry_hash == compute_hash(a.event_type, a.description, a.user_id,
                                      a.document_id, None, a.ip_address,
                                      previous_hash, 0)
       IN audit_logs' = audit_logs \cup
            {Row(id, a, None, None, previous_hash, entry_hash, 0)}
  /\ oob_writes' = oob_writes + 1
  /\ returned' = NoReturn
  /\ UNCHANGED <<pc, frame, overlap, pristine, app_vars>>

\* DELETE FROM audit_logs WHERE id = id
OobDelete(id) ==
  /\ oob_writes < MaxOob
  /\ \E e \in audit_logs :
       /\ e.id = id
       /\ audit_logs' = audit_logs \ {e}
  /\ oob_writes' = oob_writes + 1
  /\ returned' = NoReturn
  /\ UNCHANGED <<pc, frame, overlap, pristine, app_vars>>

\* the tables and the rate limiter after start-up
InitStores ==
  /\ audit_logs = {}
  /\ pc = [c \in Callers |-> "idle"]
  /\ frame = [c \in Callers |-> NoFrame]
  /\ returned = NoReturn
  /\ overlap = FALSE
  /\ oob_writes = 0
  /\ pristine = {}
  /\ documents = [d \in DocumentIds |-> NoDownload]
  /\ downloads = [r \in Requests |-> NoRequest]
  /\ emails = [d \in DocumentIds |-> 0]
  /\ requests_ = [k \in Keys |-> <<>>]
  /\ monotonic = 0
  /\ response = NoResponse
  /\ posts = [ip \in ClientIps |-> 0]
  /\ admitted = [k \in Keys |-> <<>>]
  /\ certificate = Certificate(TRUE, None, None)
  /\ sessions = [c \in Sessions |-> NoSession]
  /\ cert_events = <<>>
  /\ utc = 0
  /\ calls = 0

Init ==
  /\ InitStores
  /\ webhook = NoWebhook

\* a webhook request arrives under some configuration
InitWebhook ==
  /\ InitStores
  /\ webhook \in WebhookCalls

\* log_event called while no other call is in progress and before any
\* out-of-band write
LogEventAlone(c, a) ==
  /\ oob_writes = 0
  /\ \A d \in Callers : pc[d] = "idle"
  /\ LogEventReadTail(c, a)

\* appends by any number of callers, and whole-ledger verification
Next ==
  \/ \E c \in Callers, a \in CallArgs : LogEventReadTail(c, a)
  \/ \E c \in Callers, t \in Times : LogEventBuild(c, t)
  \/ \E c \in Callers : LogEventCommit(c)
  \/ VerifyChain(None, None)

Spec == Init /\ [][Next]_vars

\* a clock that ticks once per stored entry
Clock == Cardinality(audit_logs) + 1

\* the calls made in turn: an upload, a serve, a call with an empty
\* event_type, an upload, ...
NextArgs ==
  CASE Clock % 3 = 1 -> UploadArgs
    [] Clock % 3 = 2 -> ServeArgs
    [] OTHER -> BlankArgs

\* a ledger built by appends, one at a time, then written to out of band,
\* then verified, with or without bounds
NextOob ==
  \/ \E c \in Callers : LogEventAlone(c, NextArgs)
  \/ \E c \in Callers : LogEventBuild(c, Clock)
  \/ \E c \in Callers : LogEventCommit(c)
  \/ \E start_id \in IdBounds, end_id \in IdBounds :
       VerifyChain(start_id, end_id)
  \/ VerifyChain(ReversedRange[1], ReversedRange[2])
  \/ \E id \in 1..MaxEntries, field \in Columns : OobUpdate(id, field)
  \/ \E id \in 1..MaxEntries : OobDelete(id)
  \/ \E id \in 1..MaxEntries : OobInsert(id)

SpecOob == Init /\ [][NextOob]_vars

\* the times the clock may show when it is free to move either way, and
\* the limits a query is called with
ClockTimes == 1..MaxClock
Limits == 1..MaxLimit

\* the caller that appends while the others only read
Writer == 1

\* appends one at a time under a clock that may move backwards, and every
\* reading operation at any point between their steps
NextQuery ==
  \/ \E a \in CallArgs : LogEventAlone(Writer, a)
  \/ \E t \in ClockTimes : LogEventBuild(Writer, t)
  \/ LogEventCommit(Writer)
  \/ VerifyChain(None, None)
  \/ GetLastAuditEntry
  \/ \E limit \in Limits : GetDocumentAuditTrail(1, limit)
  \/ \E limit \in Limits : GetUserAuditTrail(1, limit)
  \/ ExportAuditTrail(1, Clock)

SpecQuery == Init /\ [][NextQuery]_vars

\* appends by any number of callers that differ in their metadata only,
\* all those in progress at one time taking the same clock value
NextDigest ==
  \/ \E c \in Callers, a \in MetaArgs : LogEventReadTail(c, a)
  \/ \E c \in Callers : LogEventBuild(c, Clock)
  \/ \E c \in Callers : LogEventCommit(c)
  \/ VerifyChain(None, None)

SpecDigest == Init /\ [][NextDigest]_vars

\* concurrent download requests for the documents
NextDownload ==
  \/ \E r \in Requests, d \in DocumentIds : DownloadFileGetDocument(r, d)
  \/ \E r \in Requests, now \in Times : try_mark_document_downloaded(r, now)
  \/ \E r \in Requests : DownloadFileReturn(r)

SpecDownload == Init /\ [][NextDownload]_vars

\* requests arriving at the middleware as time passes
NextRate ==
  \/ \E m \in Methods, ip \in ClientIps, path \in Paths : RateLimitMiddleware(m, ip, path)
  \/ Tick

SpecRate == Init /\ [][NextRate]_vars

NextWebhook == VerifySendgridWebhookSignature

\* sessions operating on one certificate as time passes
NextCertificate ==
  \/ \E c \in Sessions, op \in Operations : GetCertificateById(c, op)
  \/ \E c \in Sessions : DeactivateCertificate(c)
  \/ \E c \in Sessions : ReactivateCertificate(c)
  \/ \E c \in Sessions : RevokeCertificate(c, "compromised")
  \/ \E c \in Sessions : CertificateLogEvent(c)
  \/ UtcTick

SpecCertificate == Init /\ [][NextCertificate]_vars

SpecWebhook == InitWebhook /\ [][NextWebhook]_vars

(***************************************************************************)
(* Properties                                                              *)
(***************************************************************************)
Chain == OrderByIdAsc(audit_logs)
WholeLedger == verify_audit_chain_integrity(audit_logs, None, None)
Sequential == ~overlap /\ oob_writes = 0
IsSentinel(previous_hash) == previous_hash \in {None, Some(EmptyStr)}

\* C1 - chain linkage: after sequential appends and no out-of-band write,
\* every entry with a predecessor in id order stores as previous_hash the
\* entry_hash of the entry immediately before it.
C1_ChainLinkage ==
  Sequential =>
    \A i \in 2..Len(Chain) :
      Chain[i].previous_hash = Some(Chain[i - 1].entry_hash)

C1_Witness ==
  /\ Sequential
  /\ Len(Chain) >= 3
  /\ returned.op = "log_event"
  /\ returned.entry = Chain[Len(Chain)]
  /\ returned.entry.previous_hash = Some(Chain[Len(Chain) - 1].entry_hash)

\* C2 - under any interleaving of appends no two stored entries share the
\* same previous_hash, and the null/empty sentinel occurs on at most one.
C2_NoSharedPreviousDigest ==
  oob_writes = 0 =>
    \A e, f \in audit_logs :
      e.id # f.id => OrEmpty(e.previous_hash) # OrEmpty(f.previous_hash)

\* C3 - in every state reached only through appends, by any number of
\* callers in any interleaving, a whole-ledger verification returns valid.
C3_AppendsAlwaysVerify ==
  oob_writes = 0 => WholeLedger.valid

\* C4 - self-integrity: without out-of-band writes, recomputing the hash of
\* every stored entry from its stored fields gives its stored entry_hash, and
\* the created_at and previous_hash that were hashed are the ones stored.
C4_SelfIntegrity ==
  oob_writes = 0 =>
    \A e \in audit_logs :
      /\ verify_hash(e)
      /\ e.entry_hash[2].created_at = isoformat(e.created_at)
      /\ e.entry_hash[2].previous_hash = JsonStr(OrEmpty(e.previous_hash))

C4_Witness ==
  /\ oob_writes = 0
  /\ overlap
  /\ Cardinality(audit_logs) >= 2
  /\ \E e \in audit_logs :
       /\ e.metadata_json # None
       /\ e.previous_hash # None
       /\ e.created_at \in Times
       /\ verify_hash(e)

\* C5 - first-entry sentinel: sequentially, the entry appended to the empty
\* ledger stores the null sentinel as previous_hash and hashes it as the
\* empty string; an entry appended to a non-empty ledger never stores the
\* sentinel.
C5_FirstEntrySentinel ==
  Sequential =>
    \A i \in 1..Len(Chain) :
      IF i = 1
      THEN /\ Chain[i].previous_hash = None
           /\ Chain[i].entry_hash[2].previous_hash = JsonStr(EmptyStr)
      ELSE ~IsSentinel(Chain[i].previous_hash)

C5_Witness ==
  /\ Sequential
  /\ Len(Chain) >= 2
  /\ Chain[1].previous_hash = None
  /\ Chain[1].entry_hash[2].previous_hash = JsonStr(EmptyStr)
  /\ ~IsSentinel(Chain[2].previous_hash)

\* the hashed fields in which two rows differ
Differing(e, f) == { field \in HashedFields : e[field] # f[field] }

\* row K of the table is row P of the ledger as the appends left it, with
\* exactly one hashed field changed and nothing else, and no other row of
\* the table was touched
ContentTampered(K, P) ==
  /\ K.id = P.id
  /\ audit_logs \ {K} = pristine \ {P}
  /\ K.entry_hash = P.entry_hash
  /\ K.user_agent = P.user_agent
  /\ Cardinality(Differing(K, P)) = 1

\* C6 - tamper detection (content): changing one hashed field of one stored
\* entry K, its entry_hash left as is, makes a whole-ledger verification
\* return invalid with first_invalid_id = K.id and a hash mismatch error.
C6_ContentTamperDetected ==
  \A K \in audit_logs : \A P \in pristine :
    ContentTampered(K, P) =>
      /\ WholeLedger.valid = FALSE
      /\ WholeLedger.first_invalid_id = Some(K.id)
      /\ WholeLedger.error = HashMismatch(K.id)

\* the entry D of the ledger as the appends left it is neither its first nor
\* its last entry, and the table is that ledger without D
MiddleDeleted(D) ==
  /\ D \in pristine
  /\ audit_logs = pristine \ {D}
  /\ \E e \in pristine : e.id < D.id
  /\ \E e \in pristine : e.id > D.id

Following(D) == CHOOSE e \in audit_logs :
                  /\ e.id > D.id
                  /\ \A f \in audit_logs : f.id > D.id => e.id <= f.id

\* C7 - tamper detection (structure): after sequential appends, deleting an
\* entry that is neither the first nor the last makes a whole-ledger
\* verification return invalid at the entry following the gap with a chain
\* broken error.
C7_MiddleDeleteDetected ==
  ~overlap =>
    \A D \in pristine :
      MiddleDeleted(D) =>
        /\ WholeLedger.valid = FALSE
        /\ WholeLedger.first_invalid_id = Some(Following(D).id)
        /\ WholeLedger.error = ChainBroken(Following(D).id)

C7_Witness ==
  /\ ~overlap
  /\ \E D \in pristine : MiddleDeleted(D)
  /\ returned.op = "verify"
  /\ returned.start_id = None /\ returned.end_id = None
  /\ returned.result = WholeLedger
  /\ returned.result.valid = FALSE
  /\ returned.result.entries_checked = 2

\* the rows with start_id <= id <= end_id, each bound optional
InRange(tbl, start_id, end_id) ==
  { e \in tbl : /\ (start_id # None => start_id[1] <= e.id)
                /\ (end_id # None => e.id <= end_id[1]) }

\* C8 - range scoping: verification with bounds examines exactly the rows
\* with start_id <= id <= end_id, and two tables that agree on those rows
\* give the same result whatever differs outside the range.
C8_RangeScoping ==
  \A start_id \in IdBounds, end_id \in IdBounds :
    LET here == verify_audit_chain_integrity(audit_logs, start_id, end_id)
        there == verify_audit_chain_integrity(pristine, start_id, end_id)
        rows == InRange(audit_logs, start_id, end_id)
    IN /\ InRange(pristine, start_id, end_id) = rows => here = there
       /\ here.entries_checked <= Cardinality(rows)
       /\ here.valid => here.entries_checked = Cardinality(rows)
       /\ here.first_invalid_id # None =>
            here.first_invalid_id[1] \in Ids(rows)

C8_Witness ==
  /\ oob_writes > 0
  /\ returned.op = "verify"
  /\ returned.start_id = Some(2) /\ returned.end_id = Some(2)
  /\ InRange(audit_logs, Some(2), Some(2)) = InRange(pristine, Some(2), Some(2))
  /\ \E e \in audit_logs : e.id = 2
  /\ returned.result = verify_audit_chain_integrity(pristine, Some(2), Some(2))
  /\ returned.result.valid
  /\ returned.result.entries_checked = 1
  /\ ~WholeLedger.valid

\* entry i of a walk violates the self-hash check or the linkage check
Violates(entries, i) ==
  \/ ~verify_hash(entries[i])
  \/ i > 1 /\ entries[i].previous_hash # Some(entries[i - 1].entry_hash)

\* C9 - short-circuit: when entries of the verified range violate a check,
\* the result names the violating entry with the smallest id, counts the
\* in-range entries up to and including it, and does not depend on any entry
\* after it.
C9_ShortCircuit ==
  \A start_id \in IdBounds, end_id \in IdBounds :
    LET entries == SelectRange(audit_logs, start_id, end_id)
        bad == { i \in 1..Len(entries) : Violates(entries, i) }
        r == verify_audit_chain_integrity(audit_logs, start_id, end_id)
    IN bad # {} =>
         LET first == CHOOSE i \in bad : \A j \in bad : i <= j
             upto == { e \in audit_logs : e.id <= entries[first].id }
         IN /\ r.valid = FALSE
            /\ r.first_invalid_id = Some(entries[first].id)
            /\ r.entries_checked = first
            /\ r.entries_checked =
                 Cardinality(InRange(upto, start_id, end_id))
            /\ r = verify_audit_chain_integrity(upto, start_id, end_id)

C9_Witness ==
  /\ returned.op = "verify"
  /\ returned.start_id = None /\ returned.end_id = None
  /\ returned.result = WholeLedger
  /\ Cardinality({ i \in 1..Len(Chain) : Violates(Chain, i) }) >= 2
  /\ returned.result.first_invalid_id = Some(Chain[2].id)
  /\ returned.result.entries_checked = 2
  /\ Len(Chain) >= 3

\* C10 - after N >= 1 sequential appends to the empty ledger and no other
\* write, a whole-ledger verification returns valid, entries_checked = N,
\* no first_invalid_id and no error.
C10_SequentialAppendsVerify ==
  Sequential /\ audit_logs # {} =>
    WholeLedger = Result(TRUE, Cardinality(audit_logs), None, None)

C10_Witness ==
  /\ Sequential
  /\ returned.op = "verify"
  /\ returned.start_id = None /\ returned.end_id = None
  /\ returned.result = Result(TRUE, MaxEntries, None, None)
  /\ Cardinality(audit_logs) = MaxEntries

\* every optional bound up to one past the largest id
AnyBound == {None} \cup { Some(i) : i \in 0..(MaxEntries + 1) }

\* C11 - empty ledger or empty range: when the table has no row, or the
\* bounds select none of its rows (start_id > end_id included), verification
\* returns valid, entries_checked = 0, no first_invalid_id and no error.
C11_EmptyRange ==
  /\ \A start_id \in AnyBound, end_id \in AnyBound :
       InRange(audit_logs, start_id, end_id) = {} =>
         verify_audit_chain_integrity(audit_logs, start_id, end_id) =
           Result(TRUE, 0, None, None)
  /\ returned.op = "verify" /\
       InRange(audit_logs, returned.start_id, returned.end_id) = {} =>
         returned.result = Result(TRUE, 0, None, None)

C11_Witness ==
  /\ returned.op = "verify"
  /\ returned.start_id = Some(2) /\ returned.end_id = Some(1)
  /\ Cardinality(audit_logs) >= 2
  /\ ~WholeLedger.valid
  /\ returned.result = Result(TRUE, 0, None, None)

\* a step that completes an append
AppendCompletes == \E c \in Callers : pc[c] = "built" /\ pc'[c] = "idle"

\* C12 - immutability: no step of any operation of the ledger (log_event,
\* get_last_audit_entry, the two trail queries, verification, export)
\* changes or removes a stored row; the step that completes a log_event adds
\* exactly one row and every other step adds none.
C12_Immutability ==
  [][/\ audit_logs \subseteq audit_logs'
     /\ IF AppendCompletes
        THEN Cardinality(audit_logs') = Cardinality(audit_logs) + 1
        ELSE audit_logs' = audit_logs]_vars

C12_Witness ==
  /\ Cardinality(audit_logs) = MaxEntries
  /\ returned.op = "export_audit_trail"
  /\ returned.export.entry_count >= 2
  /\ pristine = audit_logs

\* C13 - input error: a log_event whose event_type is empty is rejected
\* before any storage interaction: no such call gets as far as reading the
\* tail, and no row with an empty event_type is stored by an append.
C13_InputErrorRejected ==
  /\ \A c \in Callers : pc[c] # "idle" => frame[c].args.event_type # ""
  /\ oob_writes = 0 => \A e \in audit_logs : e.event_type # ""

\* C14 - under any interleaving of concurrent appends, the step that stores
\* an entry with a non-empty previous_hash gives it an id strictly greater
\* than the id of the entry whose entry_hash it recorded, the tail it read,
\* which is still stored.
C14_IdAfterPredecessor ==
  [][\A c \in Callers :
       pc[c] = "built" /\ pc'[c] = "idle" =>
         \A e \in audit_logs' \ audit_logs :
           ~IsSentinel(e.previous_hash) =>
             /\ frame[c].previous_entry # None
             /\ frame[c].previous_entry[1] \in audit_logs
             /\ e.previous_hash = Some(frame[c].previous_entry[1].entry_hash)
             /\ frame[c].previous_entry[1].id < e.id]_vars

\* two racing appends recorded the same predecessor, and a later one followed
C14_Witness ==
  /\ overlap
  /\ \E e \in audit_logs, f \in audit_logs :
       /\ e.id < f.id
       /\ ~IsSentinel(e.previous_hash)
       /\ e.previous_hash = f.previous_hash
  /\ \E e \in audit_logs, f \in audit_logs :
       e.id + 1 < f.id /\ f.previous_hash = Some(e.entry_hash)

\* the entries some caller has built and not yet committed
Unstored == { frame[c].audit_entry : c \in { d \in Callers : pc[d] = "built" } }

\* C15 - append is atomic to readers: at every point between the steps of
\* concurrent appends the table holds each entry either not at all or whole,
\* with an id and with the entry_hash of its fields, so that with no
\* out-of-band write no verification, the one just returned included, reports
\* a hash mismatch.
C15_AtomicAppend ==
  oob_writes = 0 =>
    /\ \A e \in audit_logs :
         /\ e.id >= 1
         /\ e.entry_hash # EmptyStr
         /\ verify_hash(e)
         /\ e \notin Unstored
    /\ WholeLedger.error \notin { HashMismatch(id) : id \in Ids(audit_logs) }
    /\ returned.op = "verify" =>
         /\ returned.result = WholeLedger
         /\ returned.result.first_invalid_id # None =>
              returned.result.error =
                ChainBroken(returned.result.first_invalid_id[1])

\* a verification that ran while an append, begun during another one, was
\* about to commit, and found the earlier fork but no hash mismatch
C15_Witness ==
  /\ returned.op = "verify"
  /\ overlap
  /\ \E c \in Callers : pc[c] = "built"
  /\ audit_logs # {}
  /\ returned.result.first_invalid_id # None
  /\ returned.result.error = ChainBroken(returned.result.first_invalid_id[1])

\* the stored entry with the greatest id, None when there is none
GreatestId(tbl) ==
  IF tbl = {} THEN None
  ELSE Some(CHOOSE e \in tbl : \A f \in tbl : f.id <= e.id)

\* the clock moved backwards between two appends
ClockWentBack ==
  \E e \in audit_logs, f \in audit_logs :
    e.id < f.id /\ e.created_at > f.created_at

\* C16 - chain order is id order only: an append, and get_last_audit_entry,
\* take the stored entry with the greatest id (none on the empty ledger)
\* whatever the created_at values are, and with appends made one after
\* another each entry records the entry_hash of the entry with the next
\* smaller id and the whole ledger verifies as valid, also when the clock
\* moved backwards between appends.
C16_IdOrderOnly ==
  /\ \A c \in Callers :
       pc[c] # "idle" => frame[c].previous_entry = GreatestId(audit_logs)
  /\ returned.op = "get_last_audit_entry" =>
       returned.entry = IF audit_logs = {} THEN NoRow
                        ELSE GreatestId(audit_logs)[1]
  /\ \A e \in audit_logs :
       e.previous_hash =
         IF { f \in audit_logs : f.id < e.id } = {} THEN None
         ELSE Some(GreatestId({ f \in audit_logs : f.id < e.id })[1].entry_hash)
  /\ audit_logs # {} =>
       WholeLedger = Result(TRUE, Cardinality(audit_logs), None, None)
  /\ returned.op = "verify" => returned.result = WholeLedger

\* the second entry is older than the first and the third is newer than the
\* second; the ledger was verified
C16_Witness ==
  /\ Len(Chain) = MaxEntries
  /\ Chain[1].created_at > Chain[2].created_at
  /\ Chain[2].created_at < Chain[3].created_at
  /\ ClockWentBack
  /\ returned.op = "verify"
  /\ returned.result = Result(TRUE, MaxEntries, None, None)

\* the three shapes of a verification result over n entries in range
EmptyShape(r, n) == n = 0 /\ r = Result(TRUE, 0, None, None)
ValidShape(r, n) == n >= 1 /\ r = Result(TRUE, n, None, None)
InvalidShape(r, rows) ==
  /\ r.valid = FALSE
  /\ 1 <= r.entries_checked /\ r.entries_checked <= Cardinality(rows)
  /\ r.first_invalid_id # None
  /\ r.first_invalid_id[1] \in Ids(rows)
  /\ r.error \in {HashMismatch(r.first_invalid_id[1]),
                   ChainBroken(r.first_invalid_id[1])}

C18_TamperEvident ==
  oob_writes > 0 /\ pristine # {} /\ audit_logs # pristine =>
    ~WholeLedger.valid

\* rows is a list without repetition of at most limit of the matching
\* entries, as many as there are when fewer, ordered by created_at (ascending,
\* or descending), and no entry left out comes before one that is listed
TrailOk(rows, matching, limit, descending) ==
  /\ \A i \in DOMAIN rows : rows[i] \in matching
  /\ \A i \in DOMAIN rows, j \in DOMAIN rows : i # j => rows[i] # rows[j]
  /\ Len(rows) <= limit
  /\ Len(rows) = Cardinality(matching) \/ Len(rows) = limit
  /\ \A i \in DOMAIN rows, j \in DOMAIN rows :
       i < j => IF descending THEN rows[i].created_at >= rows[j].created_at
                ELSE rows[i].created_at <= rows[j].created_at
  /\ \A e \in matching \ { rows[i] : i \in DOMAIN rows } :
       \A i \in DOMAIN rows :
         IF descending THEN rows[i].created_at >= e.created_at
         ELSE rows[i].created_at <= e.created_at

\* C19 - query ordering and capping: get_document_audit_trail returns only
\* entries of the document, by created_at ascending, the limit oldest when
\* more match; get_user_audit_trail returns only entries of the user, by
\* created_at descending, the limit newest when more match; neither returns
\* more than limit entries.
C19_QueryOrderAndCap ==
  /\ \A limit \in {0, DEFAULT_LIMIT} :
       /\ \A rows \in get_document_audit_trail(audit_logs, 1, limit) :
            TrailOk(rows, { e \in audit_logs : e.document_id = Some(1) },
                    limit, FALSE)
       /\ \A rows \in get_user_audit_trail(audit_logs, 1, limit) :
            TrailOk(rows, { e \in audit_logs : e.user_id = Some(1) },
                    limit, TRUE)
  /\ returned.op = "get_document_audit_trail" =>
       TrailOk(returned.rows,
               { e \in audit_logs : e.document_id = Some(returned.key) },
               returned.limit, FALSE)
  /\ returned.op = "get_user_audit_trail" =>
       TrailOk(returned.rows,
               { e \in audit_logs : e.user_id = Some(returned.key) },
               returned.limit, TRUE)

\* two entries of the document and one of none; with limit 1 the query
\* returned the older of the two, which was appended last
C19_Witness ==
  /\ returned.op = "get_document_audit_trail"
  /\ returned.limit = 1
  /\ Len(returned.rows) = 1
  /\ Cardinality({ e \in audit_logs : e.document_id = Some(1) }) = 2
  /\ \E e \in audit_logs : e.document_id = None
  /\ \E e \in audit_logs :
       /\ e.document_id = Some(1)
       /\ e.id < returned.rows[1].id
       /\ e.created_at > returned.rows[1].created_at

\* p is what s begins with
RECURSIVE IsPrefixOf(_, _)
IsPrefixOf(p, s) ==
  \/ p = <<>>
  \/ /\ s # <<>>
     /\ Head(p)[1] = Head(s)[1]
     /\ IF Len(p) = 1 THEN Head(p)[2] <= Head(s)[2]
        ELSE Head(p)[2] = Head(s)[2] /\ IsPrefixOf(Tail(p), Tail(s))

\* stored is the first min(len, 500) characters of given, none when none
TruncatedTo(stored, given) ==
  IF given = None THEN stored = None
  ELSE /\ stored # None
       /\ IsPrefixOf(stored[1], given[1])
       /\ Len_(stored[1]) =
            (IF Len_(given[1]) < 500 THEN Len_(given[1]) ELSE 500)
       /\ Len_(given[1]) <= 500 => stored = given

\* the call that appended the entry with this id, in the order of NextArgs
CallOf(id) ==
  CASE id % 3 = 1 -> UploadArgs
    [] id % 3 = 2 -> ServeArgs
    [] OTHER -> BlankArgs

\* C20 - user_agent truncation: log_event never rejects a long user_agent;
\* the entry it builds, stores and returns has as user_agent the first
\* min(len, 500) characters of the string given: the first 500 of a string
\* of 600, a string of 500 or fewer unchanged, none when none was given.
C20_UserAgentTruncation ==
  /\ \A c \in Callers :
       pc[c] = "built" =>
         TruncatedTo(frame[c].audit_entry.user_agent, frame[c].args.user_agent)
  /\ oob_writes = 0 =>
       \A e \in audit_logs : TruncatedTo(e.user_agent, CallOf(e.id).user_agent)
  /\ oob_writes = 0 /\ returned.op = "log_event" =>
       /\ returned.entry \in audit_logs
       /\ TruncatedTo(returned.entry.user_agent,
                      CallOf(returned.entry.id).user_agent)

\* the call with a user_agent of 600 characters returned the entry it
\* stored, holding the first 500; the call with one of 500 stored it whole
C20_Witness ==
  /\ oob_writes = 0
  /\ returned.op = "log_event"
  /\ returned.entry \in audit_logs
  /\ returned.entry.user_agent = BlankArgs.user_agent
  /\ Len_(returned.entry.user_agent[1]) = 500
  /\ \E e \in audit_logs :
       /\ CallOf(e.id).user_agent # None
       /\ Len_(CallOf(e.id).user_agent[1]) = 600
       /\ e.user_agent = Some(<<<<"a", 500>>>>)

\* the key/value pairs of a metadata argument
Pairs(metadata) == { metadata[1][i] : i \in DOMAIN metadata[1] }

\* two calls that give the same values, their metadata dictionaries holding
\* the same pairs in whatever order
SameValues(a, b) ==
  /\ \A k \in DOMAIN a \ {"metadata"} : a[k] = b[k]
  /\ a.metadata # None /\ b.metadata # None
  /\ Pairs(a.metadata) = Pairs(b.metadata)

\* C21 - digest determinism: the digest depends on the hashed field values
\* and previous_hash only, so two entries equal in these have the same
\* entry_hash; and two appends whose metadata dictionaries hold the same
\* pairs in a different key order, made with the same other values,
\* previous_hash and created_at, build the same metadata_json and the same
\* entry_hash.
C21_DigestDeterminism ==
  /\ \A e \in audit_logs \cup Unstored, f \in audit_logs \cup Unstored :
       (\A field \in HashedFields : e[field] = f[field]) =>
         e.entry_hash = f.entry_hash
  /\ \A c \in Callers, d \in Callers :
       /\ pc[c] = "built" /\ pc[d] = "built"
       /\ SameValues(frame[c].args, frame[d].args)
       /\ frame[c].previous_hash = frame[d].previous_hash
       /\ frame[c].audit_entry.created_at = frame[d].audit_entry.created_at
       => /\ frame[c].audit_entry.metadata_json =
               frame[d].audit_entry.metadata_json
          /\ frame[c].audit_entry.entry_hash = frame[d].audit_entry.entry_hash

\* two appends in progress after the same tail, one with the keys of its
\* metadata in the other order, have built equal entries
C21_Witness ==
  \E c \in Callers, d \in Callers :
    /\ pc[c] = "built" /\ pc[d] = "built"
    /\ frame[c].args = ServeArgs /\ frame[d].args = ReorderedArgs
    /\ frame[c].previous_hash # None
    /\ frame[c].audit_entry = frame[d].audit_entry
    /\ frame[c].audit_entry.metadata_json = ReorderedArgs.metadata

\* the calls of try_mark_document_downloaded for document d that returned
Marked(d) == {r \in Requests : downloads[r].doc = d /\ downloads[r].at \in {"marked", "done"}}
Winners(d) == {r \in Marked(d) : downloads[r].rows_affected = 1}

\* C22 - atomic download marking: under any interleaving of the download
\* requests for one document at most one try_mark_document_downloaded call
\* returns 1 and every other call returns 0; downloaded_at, download_ip and
\* download_user_agent are the values of that one call, no later call
\* overwrites them, and the sender is notified at most once per document.
C22_MarkedOnce ==
  \A d \in DocumentIds :
    /\ Cardinality(Winners(d)) <= 1
    /\ \A r \in Marked(d) \ Winners(d) : downloads[r].rows_affected = 0
    /\ documents[d].downloaded_at # None <=> Winners(d) # {}
    /\ \A r \in Winners(d) :
         /\ documents[d].download_ip = Some(ClientIp(r))
         /\ documents[d].download_user_agent = Some(Prefix(UserAgent(r), USER_AGENT_MAX))
    /\ emails[d] <= 1
    /\ emails[d] = 1 => Winners(d) # {}

C22_AtomicDownloadMarking == [][/\ C22_MarkedOnce'
                                /\ \A d \in DocumentIds : documents[d].downloaded_at # None => documents'[d] = documents[d]]_vars

\* two requests for one document have been through the marking, the later
\* one got 0, and the sender has been notified
C22_Witness ==
  \E d \in DocumentIds :
    /\ Winners(d) # {}
    /\ Marked(d) \ Winners(d) # {}
    /\ \A r \in Marked(d) : downloads[r].at = "done"
    /\ emails[d] = 1
    /\ documents[d].download_user_agent # Some(UserAgent(CHOOSE r \in Winners(d) : TRUE))

\* the rule of a key that has one
Limited == {k \in Keys : MatchingRule(k[2]) # None}
Rules == [k \in Limited |-> MatchingRule(k[2])[1]]
RuleOf(k) == Rules[k]

\* how many of the timestamps lie in the window (start, start + window_seconds]
InWindow(timestamps, start, window_seconds) == Cardinality({i \in DOMAIN timestamps : start < timestamps[i] /\ timestamps[i] <= start + window_seconds})

WindowStarts == {i * TickSeconds : i \in -2..MaxTicks}

\* the key has max_requests admitted requests in the current window
Full(k) == InWindow(admitted[k], monotonic - RuleOf(k).window_seconds, RuleOf(k).window_seconds) >= RuleOf(k).max_requests

C23_WindowBound ==
  \A k \in Limited :
    /\ \A start \in WindowStarts :
         InWindow(admitted[k], start, RuleOf(k).window_seconds) <= RuleOf(k).max_requests
    /\ k[2] = <<"login">> =>
         InWindow(admitted[k], monotonic - 60, 60) <= 10
    /\ Full(k) => is_rate_limited(requests_[k], monotonic, RuleOf(k).max_requests,
                                   RuleOf(k).window_seconds).limited

\* C23 - rate limiting: for every key (client IP plus path) at most
\* max_requests of the POST requests that is_rate_limited let through have
\* timestamps in any one window of window_seconds; once max_requests admitted
\* requests lie in the current window every further request is refused with
\* 429, so under the /login and /register rule (10 per 60 s) the 11th and
\* later POSTs of the window are refused.
C23_RateLimiting == [][/\ C23_WindowBound'
                       /\ \A k \in Limited : admitted'[k] # admitted[k] => ~Full(k) /\ response'.status_code = 200
                       /\ posts' # posts /\ response'.status_code = 429 => admitted' = admitted /\ \E k \in Limited : Full(k)
                       /\ posts' # posts /\ response'.status_code = 200 /\ admitted' = admitted => requests_' = requests_]_vars

\* a key took its ten POSTs, the eleventh came half a window later and was
\* refused with Retry-After
C23_Witness ==
  \E k \in Limited :
    /\ Len(admitted[k]) = 10
    /\ posts[k[1]] > 10
    /\ \E j \in Limited \ {k} : admitted[j] # <<>>
    /\ monotonic = TickSeconds
    /\ response = [status_code |-> 429, retry_after |-> Some(60)]

\* C24 - with SENDGRID_WEBHOOK_SECRET empty verify_sendgrid_webhook_signature
\* returns False for every payload, signature and timestamp.
C24_RejectsWithoutSecret ==
  webhook.secret = Some(<<>>) /\ webhook.result # None => webhook.result = Some(FALSE)

\* two stored entries name the same predecessor digest
ForkedPair(e, f) == e.id < f.id /\ e.previous_hash = f.previous_hash
Forked == \E e, f \in audit_logs : ForkedPair(e, f)

\* the stored entries whose previous_hash is not the entry_hash of the entry
\* with the next lower id
Unlinked == {Chain[i].id : i \in {j \in 2..Len(Chain) : Chain[j].previous_hash # Some(Chain[j - 1].entry_hash)}}
LowestId(ids) == CHOOSE i \in ids : \A j \in ids : i <= j

\* C25 - fork diagnosis: when the stored ledger holds two entries with the
\* same previous_hash and every entry's own digest is intact, the whole-ledger
\* verification returns valid = False with a chain-broken error and
\* first_invalid_id the lowest id whose previous_hash differs from the
\* entry_hash of its id-predecessor: the later of the two forked entries when
\* they are adjacent and nothing before them is forked.
C25_ForkDiagnosis ==
  Forked /\ (\A e \in audit_logs : verify_hash(e)) =>
    /\ WholeLedger.valid = FALSE
    /\ Unlinked # {}
    /\ WholeLedger.first_invalid_id = Some(LowestId(Unlinked))
    /\ WholeLedger.error = ChainBroken(LowestId(Unlinked))
    /\ \A e, f \in audit_logs :
         /\ ForkedPair(e, f) /\ f.id = e.id + 1
         /\ \A g, h \in audit_logs : ForkedPair(g, h) => e.id <= g.id
         => WholeLedger.first_invalid_id = Some(f.id)

\* racing appends left a fork that does not start the ledger, and a
\* whole-ledger verification has reported it
C25_Witness ==
  /\ overlap
  /\ \E e, f \in audit_logs : ForkedPair(e, f) /\ f.id = e.id + 1 /\ e.previous_hash # None
  /\ returned.op = "verify"
  /\ returned.result = WholeLedger
  /\ returned.result.valid = FALSE
  /\ returned.result.entries_checked = 3

\* session c takes the step of reactivate_certificate
Reactivates(c) == sessions[c].op = "reactivate" /\ sessions[c].at = "loaded" /\ sessions'[c] # sessions[c]

Between(tbl, a, b) == {e \in tbl : a <= e.id /\ e.id <= b}

\* what is stored is what is left of the ledger the appends built after a
\* prefix or a suffix of it, or both, was deleted
EndsDeleted ==
  /\ audit_logs # pristine
  /\ audit_logs # {}
  /\ \E a, b \in Ids(pristine) : audit_logs = Between(pristine, a, b)

\* C27 - sub-chain closure: the walk checks neither the previous_hash of the
\* first entry it walks nor that it ends at the latest entry, so every
\* sub-sequence contiguous by id of a chain that verifies also verifies, and
\* a ledger that lost a prefix or a suffix of its entries out-of-band still
\* verifies as a whole.
C27_SubChainClosure ==
  /\ WholeLedger.valid =>
       \A a, b \in Ids(audit_logs) :
         a <= b =>
           LET expected == Result(TRUE, Cardinality(Between(audit_logs, a, b)), None, None)
           IN /\ verify_audit_chain_integrity(Between(audit_logs, a, b), None, None) = expected
              /\ verify_audit_chain_integrity(audit_logs, Some(a), Some(b)) = expected
  /\ EndsDeleted /\ verify_audit_chain_integrity(pristine, None, None).valid =>
       WholeLedger = Result(TRUE, Cardinality(audit_logs), None, None)

\* the first entry of a three-entry ledger was deleted, what is left starts
\* with an entry that names a predecessor, and the whole-ledger verification
\* returned valid
C27_Witness ==
  /\ EndsDeleted
  /\ Cardinality(pristine) = 3
  /\ Chain[1].previous_hash # None
  /\ returned.op = "verify"
  /\ returned.start_id = None /\ returned.end_id = None
  /\ returned.result = Result(TRUE, 2, None, None)

\* the table with the user_agent of entry e set to value
WithUserAgent(tbl, e, value) == (tbl \ {e}) \cup {[e EXCEPT !.user_agent = value]}

\* the two tables hold the same entries up to their user_agent
SameButUserAgent(tbl, other) ==
  /\ Ids(tbl) = Ids(other)
  /\ \A e \in tbl, f \in other :
       e.id = f.id => [e EXCEPT !.user_agent = None] = [f EXCEPT !.user_agent = None]

\* C28 - fields outside the digest do not influence verification: two
\* ledgers that differ only in the stored user_agent of some entries give the
\* same verification results, so an out-of-band change of a user_agent is
\* never reported.
C28_UserAgentUnchecked ==
  /\ \A e \in audit_logs :
       \A value \in ColumnValues("user_agent", e, audit_logs) :
         \A start_id \in IdBounds :
           verify_audit_chain_integrity(WithUserAgent(audit_logs, e, value), start_id, None)
             = verify_audit_chain_integrity(audit_logs, start_id, None)
  /\ SameButUserAgent(audit_logs, pristine) =>
       WholeLedger = verify_audit_chain_integrity(pristine, None, None)

\* the user_agent of a stored entry was changed out-of-band and the
\* whole-ledger verification after it returned valid
C28_Witness ==
  /\ oob_writes > 0
  /\ audit_logs # pristine
  /\ SameButUserAgent(audit_logs, pristine)
  /\ \E e \in audit_logs : e.user_agent = Some(Str("a", USER_AGENT_MAX)) /\ e.ip_address = None
  /\ returned.op = "verify"
  /\ returned.start_id = None /\ returned.end_id = None
  /\ returned.result = Result(TRUE, Cardinality(pristine), None, None)
  /\ Cardinality(pristine) >= 2

\* row K of the table is row P of the ledger as the appends left it with its
\* previous_hash changed and nothing else, and no other row was touched
PreviousHashChanged(K, P) == ContentTampered(K, P) /\ Differing(K, P) = {"previous_hash"}

\* the entry before e in the order of the walk, e itself when it is the first
Before(e) == IF \E f \in audit_logs : f.id < e.id THEN CHOOSE f \in audit_logs : f.id < e.id /\ \A g \in audit_logs : g.id < e.id => g.id <= f.id ELSE e

\* C29 - within one entry the self-digest check runs before the linkage
\* check: an entry that fails both is reported as hash mismatch, so an
\* out-of-band change of an entry's stored previous_hash, its entry_hash left
\* as is, is reported as hash mismatch at that entry, never as chain broken.
C29_SelfDigestFirst ==
  /\ \A e \in audit_logs :
       /\ WholeLedger.first_invalid_id = Some(e.id)
       /\ ~verify_hash(e)
       /\ e.previous_hash # Some(Before(e).entry_hash)
       => WholeLedger.error = HashMismatch(e.id)
  /\ \A K \in audit_logs : \A P \in pristine :
       PreviousHashChanged(K, P) =>
         /\ WholeLedger.valid = FALSE
         /\ WholeLedger.first_invalid_id = Some(K.id)
         /\ WholeLedger.error = HashMismatch(K.id)

\* the call passes an empty metadata dictionary, or none
Empty(a) == a.metadata = Some(<<>>)
Absent(a) == a.metadata = None

\* C30 - an append with an empty metadata dictionary is an append without
\* metadata: the stored metadata_json is null and, the other fields,
\* previous_hash and created_at being the same, the entry_hash is that of
\* the append with metadata absent.
C30_EmptyMetadataIsAbsent ==
  /\ \A c \in Callers :
       pc[c] = "built" /\ Empty(frame[c].args) =>
         LET a == frame[c].args
             e == frame[c].audit_entry
         IN /\ e.metadata_json = None
            /\ event_metadata(e) = None
            /\ e.entry_hash = compute_hash(a.event_type, a.description, a.user_id,
                                           a.document_id, None, a.ip_address,
                                           frame[c].previous_hash, e.created_at)
  /\ \A c \in Callers, d \in Callers :
       /\ pc[c] = "built" /\ pc[d] = "built"
       /\ Empty(frame[c].args) /\ Absent(frame[d].args)
       /\ \A k \in DOMAIN frame[c].args \ {"metadata"} : frame[c].args[k] = frame[d].args[k]
       /\ frame[c].previous_hash = frame[d].previous_hash
       /\ frame[c].audit_entry.created_at = frame[d].audit_entry.created_at
       => frame[c].audit_entry = frame[d].audit_entry
  /\ \A e \in audit_logs : e.metadata_json # Some(<<>>)

\* two appends in progress after the same tail, one with an empty dictionary
\* and one without metadata, have built equal entries
C30_Witness ==
  \E c \in Callers, d \in Callers :
    /\ pc[c] = "built" /\ pc[d] = "built"
    /\ frame[c].args = EmptyMetaArgs /\ frame[d].args = NoMetaArgs
    /\ frame[c].previous_hash # None
    /\ frame[c].audit_entry = frame[d].audit_entry
    /\ frame[c].audit_entry.metadata_json = None

====
